---------------------------- MODULE Spec2Model ----------------------------
(***************************************************************************)
(* ClaimInvestigator AI: the PII redaction engine                          *)
(* (backend/app/services/pii_redactor.py) and the LLM router               *)
(* (backend/app/services/llm_router.py).                                   *)
(*                                                                         *)
(* Text.  A text is a sequence of symbols.  A symbol stands for a fixed    *)
(* run of characters that no regular expression of the engine can cut on   *)
(* the input domain below ("555-111-" and "1111" are the two symbols of    *)
(* the phone number 555-111-1111: the street-address pattern can start at  *)
(* the last digit group).  Offsets count symbols, 0-based and half-open    *)
(* as in Python.  Input texts are words of Lexicon joined by single        *)
(* spaces.                                                                 *)
(***************************************************************************)
EXTENDS Integers, Sequences, FiniteSets, TLC

(***************************************************************************)
(* Bounds                                                                  *)
(***************************************************************************)
MaxWords == 3

\* Words per text of the two interleaved redact() calls.
MaxConcWords == 2

\* The longest text, in words, of a call in a sequence of calls on one engine.
MaxEngineWords == 2

\* The longest redacted text, in words and placeholders, handed to restore().
MaxRestoreWords == 3

(***************************************************************************)
(* Sequence helpers (Python slicing, min/max)                              *)
(***************************************************************************)
Slice(s, a, b) == SubSeq(s, a + 1, b)

Range(s) == { s[i] : i \in DOMAIN s }

Max(S) == CHOOSE x \in S : \A y \in S : y <= x

EmptyDict == [x \in {} |-> 0]

DictGet(d, k, default) == IF k \in DOMAIN d THEN d[k] ELSE default

DictSet(d, k, v) == [x \in (DOMAIN d) \cup {k} |-> IF x = k THEN v ELSE d[x]]

(***************************************************************************)
(* Input domain: the words of the texts                                    *)
(***************************************************************************)
Lexicon ==
    { <<"or">>,
      <<"555-111-", "1111">>,
      <<"123-45-", "1111">>,
      <<"CL123456">>,
      <<"POL-", "987654321">>,
      <<"Notice">>,
      <<"Loss">>,
      <<"Dr">>,
      <<"[", "PHONE", "_", "1", "]">> }

RECURSIVE Join(_)
Join(words) ==
    IF Len(words) = 0 THEN << >>
    ELSE IF Len(words) = 1 THEN words[1]
    ELSE words[1] \o <<" ">> \o Join(Tail(words))

Texts == { Join(w) : w \in UNION { [1..n -> Lexicon] : n \in 0..MaxWords } }

\* Number of characters of a symbol (the {1,30} bound of the LOCATION pattern).
Width(sym) ==
    CASE sym = " " -> 1
      [] sym = "or" -> 2
      [] sym = "Dr" -> 2
      [] sym = "Loss" -> 4
      [] sym = "1111" -> 4
      [] sym = "Notice" -> 6
      [] sym = "CL123456" -> 8
      [] sym = "987654321" -> 9
      [] sym = "POL-" -> 4
      [] sym = "555-111-" -> 8
      [] sym = "123-45-" -> 7
      [] sym = "PHONE" -> 5
      [] OTHER -> 1

(***************************************************************************)
(* Settings (backend/app/core/config.py)                                   *)
(***************************************************************************)
PII_ENTITIES_TO_REDACT ==
    { "PERSON", "PHONE_NUMBER", "EMAIL_ADDRESS", "US_SSN", "US_DRIVER_LICENSE",
      "CREDIT_CARD", "IP_ADDRESS", "DATE_TIME", "LOCATION", "US_PASSPORT",
      "MEDICAL_LICENSE" }

\* The entity configurations the model runs the engine with.
EntityConfigs == { PII_ENTITIES_TO_REDACT, PII_ENTITIES_TO_REDACT \ {"PERSON"}, {} }

(***************************************************************************)
(* PIIRedactor._compile_patterns: the patterns, in dictionary order         *)
(***************************************************************************)
PatternOrder ==
    << "US_SSN", "PHONE_NUMBER", "EMAIL_ADDRESS", "CREDIT_CARD", "IP_ADDRESS",
       "DATE_TIME", "CLAIM_NUMBER", "POLICY_NUMBER", "US_DRIVER_LICENSE",
       "MEDICAL_LICENSE", "LOCATION" >>

\* The symbol sequences a single-word pattern matches on the input domain.
PatternWords(entity_type) ==
    CASE entity_type = "US_SSN" -> { <<"123-45-", "1111">>, <<"987654321">> }
      [] entity_type = "PHONE_NUMBER" -> { <<"555-111-", "1111">> }
      [] entity_type = "CLAIM_NUMBER" -> { <<"CL123456">> }
      [] entity_type = "POLICY_NUMBER" -> { <<"POL-", "987654321">> }
      [] entity_type = "US_DRIVER_LICENSE" -> { <<"CL123456">> }
      [] OTHER -> {}

\* [\w\s]: the symbols made of word characters and white space only.
WordOrSpace ==
    { " ", "or", "Dr", "Loss", "Notice", "CL123456", "1111", "987654321" }

\* The street suffixes of the LOCATION pattern that are words of the domain.
StreetSuffix == { "Dr" }

\* [A-Z][a-z]+ : a capitalized word.
Capitalized == { "Notice", "Loss", "Dr" }

\* (Mr|Mrs|Ms|Miss|Dr|Prof)
Title == { "Dr" }

MatchesAt(text, i, w) ==
    /\ i + Len(w) <= Len(text)
    /\ Slice(text, i, i + Len(w)) = w

RECURSIVE SumWidth(_, _, _)
SumWidth(text, a, b) ==
    IF a >= b THEN 0 ELSE Width(text[a + 1]) + SumWidth(text, a + 1, b)

\* The end offsets of a LOCATION match starting at offset i:
\* \b\d{1,5}\s+[\w\s]{1,30}(?:Street|...|Dr|...)\.?\b
LocationEnds(text, i) ==
    { j \in (i + 4)..Len(text) :
        /\ text[i + 1] = "1111"
        /\ text[i + 2] = " "
        /\ text[j] \in StreetSuffix
        /\ \A k \in (i + 3)..(j - 1) : text[k] \in WordOrSpace
        /\ SumWidth(text, i + 2, j - 1) <= 30 }

\* pattern.finditer(text) for one pattern: the end of the leftmost match
\* starting at offset i, or -1.
MatchEnd(entity_type, text, i) ==
    IF entity_type = "LOCATION"
    THEN IF LocationEnds(text, i) = {} THEN -1 ELSE Max(LocationEnds(text, i))
    ELSE LET ws == { w \in PatternWords(entity_type) : MatchesAt(text, i, w) }
         IN  IF ws = {} THEN -1 ELSE Max({ i + Len(w) : w \in ws })

\* finditer: non-overlapping matches, scanning from offset i.
RECURSIVE Finditer(_, _, _)
Finditer(entity_type, text, i) ==
    IF i >= Len(text) THEN << >>
    ELSE LET e == MatchEnd(entity_type, text, i)
         IN  IF e = -1 THEN Finditer(entity_type, text, i + 1)
             ELSE << <<i, e, entity_type, Slice(text, i, e)>> >>
                  \o Finditer(entity_type, text, e)


(***************************************************************************)
(* PIIRedactor._detect_names                                               *)
(***************************************************************************)
\* \b(Mr|Mrs|Ms|Miss|Dr|Prof)\.?\s+([A-Z][a-z]+(?:\s+[A-Z][a-z]+)?)\b
TitleEnd(text, i) ==
    IF /\ i + 3 <= Len(text)
       /\ text[i + 1] \in Title
       /\ text[i + 2] = " "
       /\ text[i + 3] \in Capitalized
    THEN IF /\ i + 5 <= Len(text)
            /\ text[i + 4] = " "
            /\ text[i + 5] \in Capitalized
         THEN i + 5
         ELSE i + 3
    ELSE -1

\* \b([A-Z][a-z]+)\s+([A-Z][a-z]+)\b
TwoCapsEnd(text, i) ==
    IF /\ i + 3 <= Len(text)
       /\ text[i + 1] \in Capitalized
       /\ text[i + 2] = " "
       /\ text[i + 3] \in Capitalized
    THEN i + 3
    ELSE -1

RECURSIVE TitleMatches(_, _)
TitleMatches(text, i) ==
    IF i >= Len(text) THEN << >>
    ELSE LET e == TitleEnd(text, i)
         IN  IF e = -1 THEN TitleMatches(text, i + 1)
             ELSE << <<i, e, "PERSON">> >> \o TitleMatches(text, e)

RECURSIVE TwoCapsMatches(_, _)
TwoCapsMatches(text, i) ==
    IF i >= Len(text) THEN << >>
    ELSE LET e == TwoCapsEnd(text, i)
         IN  IF e = -1 THEN TwoCapsMatches(text, i + 1)
             ELSE << <<i, e, "PERSON">> >> \o TwoCapsMatches(text, e)

exclude_pairs ==
    { <<"First", " ", "Notice">>, <<"Notice", " ", "Loss">>,
      <<"Property", " ", "Damage">>, <<"Bodily", " ", "Injury">>,
      <<"General", " ", "Liability">>, <<"Workers", " ", "Compensation">>,
      <<"United", " ", "States">>, <<"New", " ", "York">>,
      <<"Los", " ", "Angeles">>, <<"San", " ", "Francisco">>,
      <<"San", " ", "Diego">>, <<"Police", " ", "Report">>,
      <<"Medical", " ", "Records">>, <<"Insurance", " ", "Company">> }

\* The loop over two_caps_pattern.finditer(text): names grows as it goes.
RECURSIVE AddTwoCaps(_, _, _, _)
AddTwoCaps(text, ms, k, names) ==
    IF k > Len(ms) THEN names
    ELSE LET m == ms[k]
             already_captured ==
                 \E n \in DOMAIN names : names[n][1] <= m[1] /\ m[1] < names[n][2]
         IN  IF Slice(text, m[1], m[2]) \notin exclude_pairs /\ ~already_captured
             THEN AddTwoCaps(text, ms, k + 1, Append(names, m))
             ELSE AddTwoCaps(text, ms, k + 1, names)

_detect_names(text) ==
    AddTwoCaps(text, TwoCapsMatches(text, 0), 1, TitleMatches(text, 0))

(***************************************************************************)
(* PIIRedactor.redact: collecting the candidates (all_matches)             *)
(***************************************************************************)
AlwaysRedact == { "CLAIM_NUMBER", "POLICY_NUMBER" }

PatternActive(entity_type, entities) ==
    entity_type \in entities \/ entity_type \in AlwaysRedact

RECURSIVE RegexMatches(_, _, _)
RegexMatches(text, entities, p) ==
    IF p > Len(PatternOrder) THEN << >>
    ELSE (IF PatternActive(PatternOrder[p], entities)
          THEN Finditer(PatternOrder[p], text, 0)
          ELSE << >>)
         \o RegexMatches(text, entities, p + 1)

NameMatches(text, entities) ==
    IF "PERSON" \in entities
    THEN LET names == _detect_names(text)
         IN  [n \in DOMAIN names |->
                 <<names[n][1], names[n][2], names[n][3],
                   Slice(text, names[n][1], names[n][2])>>]
    ELSE << >>

all_matches(text, entities) ==
    RegexMatches(text, entities, 1) \o NameMatches(text, entities)

(***************************************************************************)
(* all_matches.sort(key=lambda x: x[0], reverse=True): a stable sort       *)
(***************************************************************************)
\* Insert m after the elements whose key is >= its own (stability).
\* An insertion that keeps the list in ascending order of start.
RECURSIVE InsertAsc(_, _)
InsertAsc(sorted, m) ==
    IF sorted = << >> THEN <<m>>
    ELSE IF sorted[1][1] <= m[1]
         THEN <<sorted[1]>> \o InsertAsc(Tail(sorted), m)
         ELSE <<m>> \o sorted

\* An insertion that puts a match before the matches of equal start already
\* there: the sort is no longer stable.
RECURSIVE InsertDescUnstable(_, _)
InsertDescUnstable(sorted, m) ==
    IF sorted = << >> THEN <<m>>
    ELSE IF sorted[1][1] > m[1]
         THEN <<sorted[1]>> \o InsertDescUnstable(Tail(sorted), m)
         ELSE <<m>> \o sorted

RECURSIVE InsertDesc(_, _)
InsertDesc(sorted, m) ==
    IF sorted = << >> THEN <<m>>
    ELSE IF sorted[1][1] >= m[1]
         THEN <<sorted[1]>> \o InsertDesc(Tail(sorted), m)
         ELSE <<m>> \o sorted

RECURSIVE SortDesc(_, _, _)
SortDesc(ms, k, acc) ==
    IF k > Len(ms) THEN acc ELSE SortDesc(ms, k + 1, InsertDesc(acc, ms[k]))

sorted_matches(text, entities) == SortDesc(all_matches(text, entities), 1, << >>)

(***************************************************************************)
(* Removing overlapping matches                                            *)
(***************************************************************************)
\* A test that only asks whether the start lies inside the accepted interval.
OverlapsStartOnly(start, end, f_start, f_end) == f_start <= start /\ start < f_end

Overlaps(start, end, f_start, f_end) == ~(end <= f_start \/ start >= f_end)

\* A filter that compares a match with every match scanned before it, accepted
\* or not.
RECURSIVE FilterOverlapsSeen(_, _, _)
FilterOverlapsSeen(ms, k, filtered) ==
    IF k > Len(ms) THEN filtered
    ELSE LET m == ms[k]
             overlaps ==
                 \E f \in 1..(k - 1) : Overlaps(m[1], m[2], ms[f][1], ms[f][2])
         IN  FilterOverlapsSeen(ms, k + 1,
                                IF overlaps THEN filtered ELSE Append(filtered, m))

RECURSIVE FilterOverlaps(_, _, _)
FilterOverlaps(ms, k, filtered) ==
    IF k > Len(ms) THEN filtered
    ELSE LET m == ms[k]
             overlaps ==
                 \E f \in DOMAIN filtered :
                     Overlaps(m[1], m[2], filtered[f][1], filtered[f][2])
         IN  FilterOverlaps(ms, k + 1,
                            IF overlaps THEN filtered ELSE Append(filtered, m))

filtered_matches(text, entities) ==
    FilterOverlaps(sorted_matches(text, entities), 1, << >>)

(***************************************************************************)
(* PIIRedactor._get_placeholder                                            *)
(***************************************************************************)
type_map(entity_type) ==
    CASE entity_type = "PERSON" -> "PERSON"
      [] entity_type = "PHONE_NUMBER" -> "PHONE"
      [] entity_type = "EMAIL_ADDRESS" -> "EMAIL"
      [] entity_type = "US_SSN" -> "SSN"
      [] entity_type = "CREDIT_CARD" -> "CC"
      [] entity_type = "IP_ADDRESS" -> "IP"
      [] entity_type = "DATE_TIME" -> "DATE"
      [] entity_type = "CLAIM_NUMBER" -> "CLAIM_NUM"
      [] entity_type = "POLICY_NUMBER" -> "POLICY_NUM"
      [] entity_type = "US_DRIVER_LICENSE" -> "DL"
      [] entity_type = "MEDICAL_LICENSE" -> "MRN"
      [] entity_type = "LOCATION" -> "LOCATION"
      [] OTHER -> entity_type

DigitSym == <<"0", "1", "2", "3", "4", "5", "6", "7", "8", "9">>

\* str(n): the decimal digits of n, one symbol each.
RECURSIVE Decimal(_)
Decimal(n) ==
    IF n < 10 THEN <<DigitSym[n + 1]>>
    ELSE Decimal(n \div 10) \o <<DigitSym[(n % 10) + 1]>>

\* f"[{prefix}_{n}]"
FormatPlaceholder(entity_type, n) ==
    <<"[", type_map(entity_type), "_">> \o Decimal(n) \o <<"]">>

\* A counter that is set, not incremented.
BumpCounterStuck(counters, entity_type) == DictSet(counters, entity_type, 1)

\* The counters after _get_placeholder(entity_type).
BumpCounter(counters, entity_type) ==
    DictSet(counters, entity_type, DictGet(counters, entity_type, 0) + 1)

(***************************************************************************)
(* PIIRedactor.redact: applying the redactions                             *)
(***************************************************************************)
\* One iteration of the loop over filtered_matches; st is the loop's state.
\* A loop body that sets the count of the type instead of adding to it.
ApplyOneCountsOnce(st, m) ==
    LET counters == BumpCounter(st.counters, m[3])
        placeholder == FormatPlaceholder(m[3], counters[m[3]])
        mapping == [original |-> m[4], placeholder |-> placeholder,
                    entity_type |-> m[3], start |-> m[1], end |-> m[2]]
    IN  [counters |-> counters,
         mappings |-> Append(st.mappings, mapping),
         entities_found |-> DictSet(st.entities_found, m[3], 1),
         redacted_text |->
             Slice(st.redacted_text, 0, m[1]) \o placeholder
             \o Slice(st.redacted_text, m[2], Len(st.redacted_text))]

ApplyOne(st, m) ==
    LET counters == BumpCounter(st.counters, m[3])
        placeholder == FormatPlaceholder(m[3], counters[m[3]])
        mapping == [original |-> m[4], placeholder |-> placeholder,
                    entity_type |-> m[3], start |-> m[1], end |-> m[2]]
    IN  [counters |-> counters,
         mappings |-> Append(st.mappings, mapping),
         entities_found |->
             DictSet(st.entities_found, m[3],
                     DictGet(st.entities_found, m[3], 0) + 1),
         redacted_text |->
             Slice(st.redacted_text, 0, m[1]) \o placeholder
             \o Slice(st.redacted_text, m[2], Len(st.redacted_text))]

RECURSIVE ApplyAll(_, _, _)
ApplyAll(ms, k, st) ==
    IF k > Len(ms) THEN st ELSE ApplyAll(ms, k + 1, ApplyOne(st, ms[k]))

\* A redact() without the mappings.reverse() of line 268.
ReverseForgotten(s) == s

Reverse(s) == [i \in 1..Len(s) |-> s[Len(s) + 1 - i]]

RedactionResult(redacted_text, mappings, entities_found) ==
    [redacted_text |-> redacted_text, mappings |-> mappings,
     entities_found |-> entities_found]

\* An early return that hands back the empty text whatever it was given.
EarlyReturnBlank(redacted_text, counters) ==
    [result |-> RedactionResult(<< >>, << >>, EmptyDict), counters |-> counters]

\* An early return that clears the counters on its way out.
EarlyReturnResets(redacted_text, counters) ==
    [result |-> RedactionResult(redacted_text, << >>, EmptyDict),
     counters |-> EmptyDict]

\* return RedactionResult(redacted_text=...) of lines 199 and 202: mappings and
\* entities_found take their defaults, self._counters is not assigned.
EarlyReturn(redacted_text, counters) ==
    [result |-> RedactionResult(redacted_text, << >>, EmptyDict),
     counters |-> counters]

\* A redact() that goes on counting where the call before it stopped.
CountersKept(counters) == counters

\* self._counters = {} of line 205.
ResetCounters(counters) == EmptyDict

\* redact(text) on an engine whose fields are enabled, entities, counters:
\* the result returned and the counters field left behind.
Redact(is_enabled, entities, counters, text) ==
    IF ~is_enabled
    THEN EarlyReturn(text, counters)
    ELSE IF text = << >>
    THEN EarlyReturn(<< >>, counters)
    ELSE LET st == ApplyAll(filtered_matches(text, entities), 1,
                            [counters |-> ResetCounters(counters),
                             mappings |-> << >>,
                             entities_found |-> EmptyDict, redacted_text |-> text])
         IN  [result |-> RedactionResult(st.redacted_text, Reverse(st.mappings),
                                         st.entities_found),
              counters |-> st.counters]

(***************************************************************************)
(* PIIRedactor.restore                                                     *)
(***************************************************************************)
\* The code point order of the symbols a placeholder is made of; no prefix of
\* type_map is a prefix of another, so comparing symbols compares the strings.
SymRank(sym) ==
    CASE sym = "0" -> 48 [] sym = "1" -> 49 [] sym = "2" -> 50
      [] sym = "3" -> 51 [] sym = "4" -> 52 [] sym = "5" -> 53
      [] sym = "6" -> 54 [] sym = "7" -> 55 [] sym = "8" -> 56
      [] sym = "9" -> 57
      [] sym = "CC" -> 65 [] sym = "CLAIM_NUM" -> 66 [] sym = "DATE" -> 67
      [] sym = "DL" -> 68 [] sym = "EMAIL" -> 69 [] sym = "IP" -> 70
      [] sym = "LOCATION" -> 71 [] sym = "MRN" -> 72 [] sym = "PERSON" -> 73
      [] sym = "PHONE" -> 74 [] sym = "POLICY_NUM" -> 75 [] sym = "SSN" -> 76
      [] sym = "[" -> 91 [] sym = "]" -> 93 [] sym = "_" -> 95
      [] OTHER -> 0

\* a < b as Python compares strings.
RECURSIVE StrLess(_, _)
StrLess(a, b) ==
    IF b = << >> THEN FALSE
    ELSE IF a = << >> THEN TRUE
    ELSE IF a[1] = b[1] THEN StrLess(Tail(a), Tail(b))
    ELSE SymRank(a[1]) < SymRank(b[1])

\* sorted(mappings, key=lambda m: m.placeholder, reverse=True): stable.
RECURSIVE InsertByPlaceholder(_, _)
InsertByPlaceholder(sorted, m) ==
    IF sorted = << >> THEN <<m>>
    ELSE IF ~StrLess(sorted[1].placeholder, m.placeholder)
         THEN <<sorted[1]>> \o InsertByPlaceholder(Tail(sorted), m)
         ELSE <<m>> \o sorted

RECURSIVE SortByPlaceholder(_, _, _)
SortByPlaceholder(ms, k, acc) ==
    IF k > Len(ms) THEN acc
    ELSE SortByPlaceholder(ms, k + 1, InsertByPlaceholder(acc, ms[k]))

\* A replace that stops after the first occurrence, as str.replace(old, new, 1).
RECURSIVE StrReplaceFirst(_, _, _)
StrReplaceFirst(s, old, new) ==
    IF Len(s) < Len(old) \/ old = << >> THEN s
    ELSE IF SubSeq(s, 1, Len(old)) = old
         THEN new \o SubSeq(s, Len(old) + 1, Len(s))
         ELSE <<s[1]>> \o StrReplaceFirst(Tail(s), old, new)

\* str.replace(old, new): every non-overlapping occurrence, left to right.
RECURSIVE StrReplace(_, _, _)
StrReplace(s, old, new) ==
    IF Len(s) < Len(old) \/ old = << >> THEN s
    ELSE IF SubSeq(s, 1, Len(old)) = old
         THEN new \o StrReplace(SubSeq(s, Len(old) + 1, Len(s)), old, new)
         ELSE <<s[1]>> \o StrReplace(Tail(s), old, new)

RECURSIVE RestoreLoop(_, _, _)
RestoreLoop(ms, k, restored_text) ==
    IF k > Len(ms) THEN restored_text
    ELSE RestoreLoop(ms, k + 1,
                     StrReplace(restored_text, ms[k].placeholder, ms[k].original))

Restore(redacted_text, mappings) ==
    RestoreLoop(SortByPlaceholder(mappings, 1, << >>), 1, redacted_text)

(***************************************************************************)
(* State                                                                   *)
(***************************************************************************)
VARIABLES
    enabled,             \* PIIRedactor.enabled
    entities_to_redact,  \* PIIRedactor.entities_to_redact
    _counters,           \* PIIRedactor._counters
    text,                \* the argument of the redact() call
    result,              \* the RedactionResult returned, or NoResult
    restored,            \* what restore() returned, or NoResult
    pc,                  \* where the caller is: "start", "redacted", "restored"
    threads,             \* the redact() calls in flight on the shared engine
    previous,            \* the redact() call made on the engine before this one
    _available_providers, \* LLMRouter._available_providers
    default_provider,    \* LLMRouter.default_provider
    rpc,                 \* where complete() is: "idle", "primary", "fallback",
                         \* "returned", "raised"
    task_type,           \* complete()'s task_type argument
    preferred_provider,  \* complete()'s preferred_provider argument
    selected,            \* what _select_provider returned
    provider,            \* the provider being called
    attempt,             \* attempts the retry wrapper has made in this call
    calls,               \* the HTTP attempts of this invocation, in order
    outcome,             \* what complete() returned or raised
    _router,             \* the module's singleton: None, or the class of the
                         \* router get_router() installed
    available            \* the lists callers got from get_available_providers()

redactorVars == <<enabled, entities_to_redact, _counters, text, result, restored,
                  pc, threads, previous>>

routerVars == <<_available_providers, default_provider, rpc, task_type,
                preferred_provider, selected, provider, attempt, calls, outcome,
                _router, available>>

vars == <<enabled, entities_to_redact, _counters, text, result, restored, pc,
          threads, previous, _available_providers, default_provider, rpc, task_type,
          preferred_provider, selected, provider, attempt, calls, outcome,
          _router, available>>

None == "None"

\* The router is not part of a run of the redaction engine.
RouterOff ==
    /\ _available_providers = << >>
    /\ default_provider = "claude"
    /\ rpc = "off"
    /\ task_type = None
    /\ preferred_provider = None
    /\ selected = None
    /\ provider = None
    /\ attempt = 0
    /\ calls = << >>
    /\ outcome = None
    /\ _router = None
    /\ available = << >>

NoResult == [none |-> TRUE]

\* The engine after PIIRedactor.__init__, and a text to redact.
Init ==
    /\ enabled \in BOOLEAN
    /\ entities_to_redact \in EntityConfigs
    /\ _counters = EmptyDict
    /\ text \in Texts
    /\ result = NoResult
    /\ restored = NoResult
    /\ pc = "start"
    /\ threads = << >>
    /\ previous = << >>
    /\ RouterOff

\* result = redactor.redact(text)
CallRedact ==
    /\ pc = "start"
    /\ LET r == Redact(enabled, entities_to_redact, _counters, text)
       IN  /\ result' = r.result
           /\ _counters' = r.counters
    /\ pc' = "redacted"
    /\ UNCHANGED <<enabled, entities_to_redact, text, restored, threads, previous>>
    /\ UNCHANGED routerVars

\* redactor.restore(result.redacted_text, result.mappings)
CallRestore ==
    /\ pc = "redacted"
    /\ restored' = Restore(result.redacted_text, result.mappings)
    /\ pc' = "restored"
    /\ UNCHANGED <<enabled, entities_to_redact, _counters, text, result, threads,
                   previous>>
    /\ UNCHANGED routerVars

Next == CallRedact \/ CallRestore

Spec == Init /\ [][Next]_vars

(***************************************************************************)
(* restore() on the result of redacting a text with ten claim numbers, of  *)
(* which the mappings numbered 1, 2 and 10 and a stretch of the redacted   *)
(* text are kept: restore reads the placeholder and the original of a      *)
(* mapping and nothing else, and takes the mappings in any order.          *)
(***************************************************************************)
PlaceholderNumbers == {1, 2, 10}

\* The claim number redact() replaced by placeholder number n.
OriginalOf(n) ==
    CASE n = 1 -> <<"CL123456">> [] n = 2 -> <<"CL222222">> [] OTHER -> <<"CL101010">>

MappingOf(n) ==
    [original |-> OriginalOf(n),
     placeholder |-> FormatPlaceholder("CLAIM_NUMBER", n),
     entity_type |-> "CLAIM_NUMBER", start |-> 0, end |-> 1]

RestoreWords ==
    {<<"or">>} \cup { FormatPlaceholder("CLAIM_NUMBER", n) : n \in PlaceholderNumbers }

RedactedTexts ==
    { Join(w) : w \in UNION { [1..n -> RestoreWords] : n \in 1..MaxRestoreWords } }

\* The mappings, in every order a caller can pass them.
MappingLists ==
    { [i \in 1..Cardinality(PlaceholderNumbers) |-> MappingOf(f[i])] :
        f \in { g \in [1..Cardinality(PlaceholderNumbers) -> PlaceholderNumbers] :
                   \A i, j \in DOMAIN g : i # j => g[i] # g[j] } }

RestoreInit ==
    /\ enabled = TRUE
    /\ entities_to_redact = PII_ENTITIES_TO_REDACT
    /\ _counters = EmptyDict
    /\ text = << >>
    /\ \E t \in RedactedTexts, ms \in MappingLists :
           result = RedactionResult(t, ms, EmptyDict)
    /\ restored = NoResult
    /\ pc = "redacted"
    /\ threads = << >>
    /\ previous = << >>
    /\ RouterOff

RestoreNext == CallRestore

RestoreSpec == RestoreInit /\ [][RestoreNext]_vars

(***************************************************************************)
(* One engine used for one redact() call after another, as the singleton   *)
(* of get_redactor() is: the fields the engine keeps between calls are     *)
(* enabled, entities_to_redact and _counters.                              *)
(***************************************************************************)
\* The words of the texts of these calls: one word with nothing to redact and
\* the four numbers of Lexicon.
EngineWords ==
    { w \in Lexicon : w[1] \in {"or", "CL123456", "123-45-", "POL-", "555-111-"} }

EngineTexts ==
    { Join(w) : w \in UNION { [1..n -> EngineWords] : n \in 0..MaxEngineWords } }

EngineInit ==
    /\ enabled \in BOOLEAN
    /\ entities_to_redact \in EntityConfigs
    /\ _counters = EmptyDict
    /\ text \in EngineTexts
    /\ result = NoResult
    /\ restored = NoResult
    /\ pc = "start"
    /\ threads = << >>
    /\ previous = << >>
    /\ RouterOff

\* The caller goes on to its next redact(t); the call it has finished becomes
\* the previous one.
NextCall(t) ==
    /\ pc = "redacted"
    /\ previous' = <<[text |-> text, enabled |-> enabled, result |-> result]>>
    /\ text' = t
    /\ result' = NoResult
    /\ pc' = "start"
    /\ UNCHANGED <<enabled, entities_to_redact, _counters, restored, threads>>
    /\ UNCHANGED routerVars

\* redactor.enabled = not redactor.enabled, between two calls.
SetEnabled ==
    /\ pc = "start"
    /\ previous # << >>
    /\ enabled' = ~enabled
    /\ UNCHANGED <<entities_to_redact, _counters, text, result, restored, pc,
                   threads, previous>>
    /\ UNCHANGED routerVars

EngineNext ==
    \/ CallRedact
    \/ \E t \in EngineTexts : NextCall(t)
    \/ SetEnabled

EngineSpec == EngineInit /\ [][EngineNext]_vars

(***************************************************************************)
(* Two redact() calls on the singleton engine of get_redactor(), run by    *)
(* two threads.  _counters is a field of the engine, shared by the calls;  *)
(* everything else a call uses is local to it.  A step is one statement    *)
(* of redact() or _get_placeholder() that reads or writes _counters,       *)
(* together with the local statements that follow it.                      *)
(***************************************************************************)
Threads == {1, 2}

ConcTexts == { Join(w) : w \in UNION { [1..n -> Lexicon] : n \in 1..MaxConcWords } }

NewCall(t) ==
    [pc |-> "begin", text |-> t, matches |-> << >>, k |-> 1, mappings |-> << >>,
     entities_found |-> EmptyDict, redacted_text |-> t, result |-> NoResult]

ConcInit ==
    /\ enabled = TRUE
    /\ entities_to_redact = PII_ENTITIES_TO_REDACT
    /\ _counters = EmptyDict
    /\ threads \in [Threads -> { NewCall(t) : t \in ConcTexts }]
    /\ text = << >>
    /\ result = NoResult
    /\ restored = NoResult
    /\ pc = "threads"
    /\ previous = << >>
    /\ RouterOff

Shared == <<enabled, entities_to_redact, text, result, restored, pc, previous,
            routerVars>>

\* Lines 198-246: the early returns, self._counters = {}, detection, sort and
\* overlap removal.
T_Begin(t) ==
    LET c == threads[t] IN
    /\ c.pc = "begin"
    /\ IF ~enabled \/ c.text = << >>
       THEN /\ threads' = [threads EXCEPT ![t].pc = "done",
                               ![t].result = RedactionResult(c.text, << >>, EmptyDict)]
            /\ UNCHANGED _counters
       ELSE /\ _counters' = EmptyDict
            /\ threads' = [threads EXCEPT ![t].pc = "loop",
                               ![t].matches = filtered_matches(c.text, entities_to_redact)]
    /\ UNCHANGED Shared

\* Lines 248 and 122-123: the next match, and
\* if entity_type not in self._counters: self._counters[entity_type] = 0
T_CheckInit(t) ==
    LET c == threads[t] IN
    /\ c.pc = "loop"
    /\ c.k <= Len(c.matches)
    /\ _counters' = IF c.matches[c.k][3] \in DOMAIN _counters
                    THEN _counters
                    ELSE DictSet(_counters, c.matches[c.k][3], 0)
    /\ threads' = [threads EXCEPT ![t].pc = "increment"]
    /\ UNCHANGED Shared

\* Line 124: self._counters[entity_type] += 1 (KeyError when the dictionary
\* was replaced since the test).
T_Increment(t) ==
    LET c == threads[t]
        entity_type == c.matches[c.k][3] IN
    /\ c.pc = "increment"
    /\ IF entity_type \in DOMAIN _counters
       THEN /\ _counters' = [_counters EXCEPT ![entity_type] = @ + 1]
            /\ threads' = [threads EXCEPT ![t].pc = "format"]
       ELSE /\ threads' = [threads EXCEPT ![t].pc = "raised"]
            /\ UNCHANGED _counters
    /\ UNCHANGED Shared

\* Lines 143 and 252-265: the placeholder is formatted from the counter as it
\* is now; the mapping, the count and the replacement are local.
T_Format(t) ==
    LET c == threads[t]
        m == c.matches[c.k] IN
    /\ c.pc = "format"
    /\ IF m[3] \in DOMAIN _counters
       THEN LET placeholder == FormatPlaceholder(m[3], _counters[m[3]])
                mapping == [original |-> m[4], placeholder |-> placeholder,
                            entity_type |-> m[3], start |-> m[1], end |-> m[2]]
            IN  threads' = [threads EXCEPT
                    ![t].pc = "loop",
                    ![t].k = c.k + 1,
                    ![t].mappings = Append(c.mappings, mapping),
                    ![t].entities_found =
                        DictSet(c.entities_found, m[3],
                                DictGet(c.entities_found, m[3], 0) + 1),
                    ![t].redacted_text =
                        Slice(c.redacted_text, 0, m[1]) \o placeholder
                        \o Slice(c.redacted_text, m[2], Len(c.redacted_text))]
       ELSE threads' = [threads EXCEPT ![t].pc = "raised"]
    /\ UNCHANGED _counters
    /\ UNCHANGED Shared

\* Lines 268-277: the loop is over; mappings.reverse() and return.
T_Return(t) ==
    LET c == threads[t] IN
    /\ c.pc = "loop"
    /\ c.k > Len(c.matches)
    /\ threads' = [threads EXCEPT
            ![t].pc = "done",
            ![t].result = RedactionResult(c.redacted_text, Reverse(c.mappings),
                                          c.entities_found)]
    /\ UNCHANGED _counters
    /\ UNCHANGED Shared

ConcNext ==
    \E t \in Threads :
        \/ T_Begin(t)
        \/ T_CheckInit(t)
        \/ T_Increment(t)
        \/ T_Format(t)
        \/ T_Return(t)

ConcSpec == ConcInit /\ [][ConcNext]_vars

(***************************************************************************)
(* LLMRouter (backend/app/services/llm_router.py)                          *)
(***************************************************************************)
\* stop_after_attempt(3) of the @retry decorator of _call_claude, _call_openai,
\* _call_gemini and _call_azure.
MaxAttempts == 3

fallback_order == <<"claude", "openai", "gemini", "azure">>

Providers == Range(fallback_order)

\* class TaskType
TaskTypes ==
    { "claim_triage", "question_generation", "coverage_analysis", "file_notes",
      "extraction", "general" }

\* class LLMProvider, and None for an argument that is not given.
Preferences == Providers \cup { "auto", None }

\* settings.ROUTING_STRATEGY
ROUTING_STRATEGY ==
    [k \in { "claim_triage", "question_generation", "coverage_analysis",
             "file_notes", "extraction", "enterprise_demo" } |->
        CASE k = "claim_triage" -> "claude"
          [] k = "question_generation" -> "claude"
          [] k = "coverage_analysis" -> "claude"
          [] k = "file_notes" -> "openai"
          [] k = "extraction" -> "gemini"
          [] k = "enterprise_demo" -> "azure"]

\* _check_available_providers: the providers whose keys are configured, in the
\* order the method appends them.
RECURSIVE CheckOrder(_, _)
CheckOrder(keys, i) ==
    IF i > Len(fallback_order) THEN << >>
    ELSE (IF fallback_order[i] \in keys THEN <<fallback_order[i]>> ELSE << >>)
         \o CheckOrder(keys, i + 1)

_check_available_providers(keys) == CheckOrder(keys, 1)

ValueError == "ValueError: No LLM providers available"

RuntimeError == "RuntimeError: All LLM providers failed"

\* A _select_provider that tries the default provider before the routing table.
SelectDefaultFirst(task, preferred) ==
    IF /\ preferred # None
       /\ preferred # "auto"
       /\ preferred \in Range(_available_providers)
    THEN preferred
    ELSE IF default_provider \in Range(_available_providers)
    THEN default_provider
    ELSE IF DictGet(ROUTING_STRATEGY, task, default_provider)
               \in Range(_available_providers)
    THEN DictGet(ROUTING_STRATEGY, task, default_provider)
    ELSE IF _available_providers # << >> THEN _available_providers[1]
    ELSE ValueError

\* A _select_provider that returns the default provider without asking whether
\* it is available.
SelectDefaultUnchecked(task, preferred) ==
    IF /\ preferred # None
       /\ preferred # "auto"
       /\ preferred \in Range(_available_providers)
    THEN preferred
    ELSE IF DictGet(ROUTING_STRATEGY, task, default_provider)
               \in Range(_available_providers)
    THEN DictGet(ROUTING_STRATEGY, task, default_provider)
    ELSE default_provider

\* LLMRouter._select_provider: the provider, or ValueError when it raises.
_select_provider(task, preferred) ==
    IF /\ preferred # None
       /\ preferred # "auto"
       /\ preferred \in Range(_available_providers)
    THEN preferred
    ELSE LET optimal == DictGet(ROUTING_STRATEGY, task, default_provider)
         IN  IF optimal \in Range(_available_providers) THEN optimal
             ELSE IF default_provider \in Range(_available_providers)
             THEN default_provider
             ELSE IF _available_providers # << >> THEN _available_providers[1]
             ELSE ValueError

\* _get_model_name
_get_model_name(p) ==
    CASE p = "claude" -> "claude-sonnet-4-20250514"
      [] p = "openai" -> "gpt-4o"
      [] p = "gemini" -> "gemini-1.5-pro"
      [] p = "azure" -> "gpt-4"
      [] OTHER -> "unknown"

\* A fallback loop that does not ask whether the provider is available.
IsFallbackCandidateUnchecked(p, failed_provider) ==
    p # failed_provider

\* A fallback loop that does not skip the provider that failed.
IsFallbackCandidateAny(p, failed_provider) ==
    p \in Range(_available_providers)

\* _try_fallback: the two "continue" tests of the loop.
IsFallbackCandidate(p, failed_provider) ==
    /\ p # failed_provider
    /\ p \in Range(_available_providers)

\* The positions of fallback_order the loop of _try_fallback still has to visit
\* and will call, from position i on.
FallbackPositions(i) ==
    { j \in i..Len(fallback_order) : IsFallbackCandidate(fallback_order[j], selected) }

Min(S) == CHOOSE x \in S : \A y \in S : x <= y

PositionOf(p) == CHOOSE i \in DOMAIN fallback_order : fallback_order[i] = p

\* The extracted text of a well-formed response of provider p.
ResponseText(p) == <<"text of", p>>

\* A result that carries the fallback flag whichever path returns it.
CompletionResultFlagged(p, phase) ==
    [text |-> ResponseText(p), provider |-> p, model |-> _get_model_name(p),
     fallback |-> TRUE]

\* The dictionary complete() returns (lines 321-326) and the one _try_fallback
\* returns (lines 379-385); latency_ms is left out.
CompletionResult(p, phase) ==
    IF phase = "primary"
    THEN [text |-> ResponseText(p), provider |-> p, model |-> _get_model_name(p)]
    ELSE [text |-> ResponseText(p), provider |-> p, model |-> _get_model_name(p),
          fallback |-> TRUE]

RedactorOff ==
    /\ enabled = TRUE
    /\ entities_to_redact = PII_ENTITIES_TO_REDACT
    /\ _counters = EmptyDict
    /\ text = << >>
    /\ result = NoResult
    /\ restored = NoResult
    /\ pc = "off"
    /\ threads = << >>
    /\ previous = << >>

\* LLMRouter.__init__, for every set of configured keys and default provider.
RouterInit ==
    /\ RedactorOff
    /\ _available_providers \in { _check_available_providers(keys) : keys \in SUBSET Providers }
    /\ default_provider \in Providers
    /\ rpc = "idle"
    /\ task_type = None
    /\ preferred_provider = None
    /\ selected = None
    /\ provider = None
    /\ attempt = 0
    /\ calls = << >>
    /\ outcome = None
    /\ _router = None
    /\ available = << >>

Config == <<_available_providers, default_provider>>

\* What a complete() invocation has no statement to write.
Untouched == <<_router, available, redactorVars>>

\* complete(), lines 283-294: the provider is selected; ValueError propagates.
Complete(task, preferred) ==
    /\ rpc = "idle"
    /\ _router # "MockLLMRouter"
    /\ task_type' = task
    /\ preferred_provider' = preferred
    /\ calls' = << >>
    /\ attempt' = 0
    /\ LET p == _select_provider(task, preferred)
       IN  IF p = ValueError
           THEN /\ rpc' = "raised"
                /\ outcome' = ValueError
                /\ UNCHANGED <<selected, provider>>
           ELSE /\ rpc' = "primary"
                /\ selected' = p
                /\ provider' = p
                /\ outcome' = None
    /\ UNCHANGED <<Config, Untouched>>

\* A failure path that hands an empty result back when no candidate is left.
ProviderFailedQuietly ==
    LET rest == FallbackPositions(IF rpc = "primary" THEN 1
                                  ELSE PositionOf(provider) + 1)
    IN  IF rest = {}
        THEN /\ rpc' = "returned"
             /\ outcome' = [text |-> << >>, provider |-> provider,
                            model |-> _get_model_name(provider), fallback |-> TRUE]
             /\ UNCHANGED provider
             /\ attempt' = 0
        ELSE /\ rpc' = "fallback"
             /\ provider' = fallback_order[Min(rest)]
             /\ attempt' = 0
             /\ UNCHANGED outcome

\* The call of the current provider is over and has failed (RetryError out of
\* the retry wrapper, or ValueError out of _extract_response_text): the except
\* clause of complete() enters _try_fallback, the except clause of
\* _try_fallback continues its loop; RuntimeError when the loop ends.
ProviderFailed ==
    LET rest == FallbackPositions(IF rpc = "primary" THEN 1
                                  ELSE PositionOf(provider) + 1)
    IN  IF rest = {}
        THEN /\ rpc' = "raised"
             /\ outcome' = RuntimeError
             /\ UNCHANGED provider
             /\ attempt' = 0
        ELSE /\ rpc' = "fallback"
             /\ provider' = fallback_order[Min(rest)]
             /\ attempt' = 0
             /\ UNCHANGED outcome

Calling == rpc \in { "primary", "fallback" }

Logged(o) == Append(calls, [provider |-> provider, outcome |-> o, phase |-> rpc])

\* An attempt of _call_<provider> raises (transport error, timeout, HTTP status,
\* body that is not JSON): the retry wrapper tries again, up to MaxAttempts.
AttemptRaises ==
    /\ Calling
    /\ calls' = Logged("raised")
    /\ IF attempt + 1 < MaxAttempts
       THEN /\ attempt' = attempt + 1
            /\ UNCHANGED <<rpc, provider, outcome>>
       ELSE ProviderFailed
    /\ UNCHANGED <<Config, task_type, preferred_provider, selected, Untouched>>

\* The ValueError of _extract_response_text leaves complete() uncaught.
AttemptBadShapePropagates ==
    /\ Calling
    /\ calls' = Logged("bad_shape")
    /\ rpc' = "raised"
    /\ outcome' = "ValueError: Invalid response format"
    /\ UNCHANGED <<provider, attempt>>
    /\ UNCHANGED <<Config, task_type, preferred_provider, selected, Untouched>>

\* An attempt returns a response whose envelope lacks the expected fields:
\* _call_<provider> returns it, _extract_response_text raises ValueError.
AttemptBadShape ==
    /\ Calling
    /\ calls' = Logged("bad_shape")
    /\ ProviderFailed
    /\ UNCHANGED <<Config, task_type, preferred_provider, selected, Untouched>>

\* An attempt returns a well-formed response: complete() returns the result.
AttemptSucceeds ==
    /\ Calling
    /\ calls' = Logged("ok")
    /\ rpc' = "returned"
    /\ outcome' = CompletionResult(provider, rpc)
    /\ UNCHANGED <<provider, attempt>>
    /\ UNCHANGED <<Config, task_type, preferred_provider, selected, Untouched>>

\* The caller has the result or the exception; the router is ready for the
\* next complete().
Finished ==
    /\ rpc \in { "returned", "raised", "cancelled" }
    /\ rpc' = "idle"
    /\ task_type' = None
    /\ preferred_provider' = None
    /\ selected' = None
    /\ provider' = None
    /\ attempt' = 0
    /\ calls' = << >>
    /\ outcome' = None
    /\ UNCHANGED <<Config, Untouched>>

RouterNext ==
    \/ \E task \in TaskTypes, preferred \in Preferences : Complete(task, preferred)
    \/ AttemptRaises
    \/ AttemptBadShape
    \/ AttemptSucceeds
    \/ Finished

RouterSpec == RouterInit /\ [][RouterNext]_vars

\* Every awaited provider call comes back: httpx answers, fails or times out
\* (timeout=60.0), so an attempt in progress eventually has one of its three
\* outcomes.
AttemptEnds == AttemptRaises \/ AttemptBadShape \/ AttemptSucceeds

RouterLiveSpec == RouterInit /\ [][RouterNext]_vars /\ WF_vars(AttemptEnds)

(***************************************************************************)
(* The router as the application uses it: the get_router() singleton,      *)
(* MockLLMRouter, get_available_providers() and a caller that holds the    *)
(* list it returned, and cancellation of the task that awaits complete().  *)
(***************************************************************************)
\* MOCK_RESPONSES.get(task_type, "[MOCK RESPONSE] ... {task_type.value} ...")
MOCK_RESPONSES(task) ==
    IF task \in { "claim_triage", "question_generation" }
    THEN <<"MOCK_RESPONSES", task>>
    ELSE <<"[MOCK RESPONSE]", task>>

\* A get_router that installs the mock when the default provider has no key.
RouterClassByDefault(providers) ==
    IF default_provider \notin Range(providers) THEN "MockLLMRouter" ELSE "LLMRouter"

\* get_router: the class of the router it installs, given what
\* temp_router.get_available_providers() returned.
RouterClass(providers) ==
    IF providers = << >> THEN "MockLLMRouter" ELSE "LLMRouter"

\* A get_available_providers that returns the field itself.
ReturnsField(field) == [alias |-> TRUE, items |-> field]

\* get_available_providers: self._available_providers.copy(), a new list.
ReturnsCopy(field) == [alias |-> FALSE, items |-> field]

\* get_router() when no router is installed yet.
get_router ==
    /\ rpc = "idle"
    /\ _router = None
    /\ _router' = RouterClass(ReturnsCopy(_available_providers).items)
    /\ UNCHANGED <<Config, rpc, task_type, preferred_provider, selected, provider,
                   attempt, calls, outcome, available, redactorVars>>

\* MockLLMRouter.complete
MockComplete(task) ==
    /\ rpc = "idle"
    /\ _router = "MockLLMRouter"
    /\ task_type' = task
    /\ rpc' = "returned"
    /\ outcome' = [text |-> MOCK_RESPONSES(task), provider |-> "mock",
                   model |-> "mock-v1", mock |-> TRUE]
    /\ UNCHANGED <<Config, preferred_provider, selected, provider, attempt, calls,
                   Untouched>>

\* available = router.get_available_providers()
get_available_providers ==
    /\ rpc # "off"
    /\ available = << >>
    /\ available' = <<ReturnsCopy(_available_providers)>>
    /\ UNCHANGED <<Config, rpc, task_type, preferred_provider, selected, provider,
                   attempt, calls, outcome, _router, redactorVars>>

\* The caller changes the list it holds: available.clear().  The router's
\* list changes with it when the two are the same object.
CallerMutates ==
    /\ available # << >>
    /\ available[1].items # << >>
    /\ available' = <<[available[1] EXCEPT !.items = << >>]>>
    /\ IF available[1].alias
       THEN _available_providers' = << >>
       ELSE UNCHANGED _available_providers
    /\ UNCHANGED <<default_provider, rpc, task_type, preferred_provider, selected,
                   provider, attempt, calls, outcome, _router, redactorVars>>

CancelledError == "asyncio.CancelledError"

\* A cancellation that the except clauses catch like a provider failure.
CancelCaught ==
    /\ Calling
    /\ calls' = Logged("cancelled")
    /\ ProviderFailed
    /\ UNCHANGED <<Config, task_type, preferred_provider, selected, Untouched>>

\* The task awaiting complete() is cancelled (asyncio.wait_for deadline) while
\* self.client.post is awaited: CancelledError is raised at the await; it is
\* not an Exception, so the retry wrapper does not retry it and neither
\* except Exception clause catches it.
Cancel ==
    /\ Calling
    /\ calls' = Logged("cancelled")
    /\ rpc' = "cancelled"
    /\ outcome' = CancelledError
    /\ UNCHANGED <<provider, attempt>>
    /\ UNCHANGED <<Config, task_type, preferred_provider, selected, Untouched>>

ServiceNext ==
    \/ get_router
    \/ \E task \in TaskTypes, preferred \in Preferences : Complete(task, preferred)
    \/ \E task \in TaskTypes : MockComplete(task)
    \/ AttemptRaises
    \/ AttemptBadShape
    \/ AttemptSucceeds
    \/ Cancel
    \/ Finished
    \/ get_available_providers
    \/ CallerMutates

ServiceSpec == RouterInit /\ [][ServiceNext]_vars

(***************************************************************************)
(* Properties of redact() and restore()                                    *)
(***************************************************************************)
Candidates == all_matches(text, entities_to_redact)

Mappings == result.mappings

Disjoint(m1, m2) == m1.end <= m2.start \/ m2.end <= m1.start

\* C1: in every RedactionResult returned by redact, the intervals
\* [start, end) of any two distinct mappings are disjoint, whatever
\* overlapping candidates the detectors produced.
C1_MappingsDisjoint ==
    pc # "start" =>
        \A i, j \in DOMAIN Mappings :
            i # j => Disjoint(Mappings[i], Mappings[j])

\* A call whose candidates overlap with different starts and that still
\* returns two mappings.
C1_Witness ==
    /\ pc = "redacted"
    /\ Len(Mappings) >= 2
    /\ \E a, b \in DOMAIN Candidates :
          /\ Candidates[a][1] < Candidates[b][1]
          /\ Candidates[b][1] < Candidates[a][2]

\* The number of mappings of m's type that start at or before m.
RankFromLeft(m) ==
    Cardinality({ j \in DOMAIN Mappings :
                    /\ Mappings[j].entity_type = m.entity_type
                    /\ Mappings[j].start <= m.start })

\* C2: within one redact() call the placeholders of one entity type are
\* numbered in left-to-right text order starting at 1 (the leftmost accepted
\* match of a type carries number 1, the next one 2, and so on).
C2_NumberedLeftToRight ==
    pc # "start" =>
        \A i \in DOMAIN Mappings :
            Mappings[i].placeholder =
                FormatPlaceholder(Mappings[i].entity_type, RankFromLeft(Mappings[i]))

\* C4: all placeholders generated within one redact() call are pairwise
\* distinct.
C4_PlaceholdersDistinct ==
    pc # "start" =>
        \A i, j \in DOMAIN Mappings :
            i # j => Mappings[i].placeholder # Mappings[j].placeholder

\* A result with two mappings of one type and a mapping of another type.
C4_Witness ==
    /\ pc = "redacted"
    /\ \E i, j, k \in DOMAIN Mappings :
          /\ i # j
          /\ Mappings[i].entity_type = Mappings[j].entity_type
          /\ Mappings[k].entity_type # Mappings[i].entity_type

\* C5: round trip: restore(redact(t).redacted_text, redact(t).mappings)
\* returns t, for every text t.
C5_RoundTrip == pc = "restored" => restored = text

\* What redact(t) returns when it runs alone on the engine.
Alone(t) == Redact(enabled, entities_to_redact, EmptyDict, t).result

\* C3: the placeholder counters are scoped to one redact() invocation: when
\* two invocations on the same engine interleave, each one that returns
\* still returns pairwise distinct placeholders and the result it returns
\* when run alone.
C3_InterleavingSafe ==
    \A t \in DOMAIN threads :
        threads[t].pc = "done" =>
            /\ threads[t].result = Alone(threads[t].text)
            /\ \A i, j \in DOMAIN threads[t].result.mappings :
                  i # j => threads[t].result.mappings[i].placeholder
                           # threads[t].result.mappings[j].placeholder

(***************************************************************************)
(* Properties of LLMRouter.complete()                                      *)
(***************************************************************************)
Avail == Range(_available_providers)

\* complete() has been entered and not yet handed back to the caller.
InCall == rpc \in { "primary", "fallback", "returned", "raised" }

CallsOf(p) == { i \in DOMAIN calls : calls[i].provider = p }

\* C6: a response of the selected provider whose envelope lacks the expected
\* fields counts as a failed attempt like a transport failure: the selected
\* provider is retried, up to MaxAttempts attempts in total, before any
\* fallback provider is contacted.
C6_ShapeFailureRetried ==
    \A i \in DOMAIN calls :
        calls[i].provider # selected =>
            Cardinality({ j \in 1..(i - 1) : calls[j].provider = selected })
                = MaxAttempts

\* C7: during fallback each remaining available provider receives exactly one,
\* non-retried call, so an invocation with n available providers makes at
\* most 3 + (n - 1) provider attempts.
C7_FallbackNotRetried ==
    InCall =>
        /\ \A p \in Providers \ {selected} : Cardinality(CallsOf(p)) <= 1
        /\ Len(calls) <= 3 + (Len(_available_providers) - 1)

\* The first available provider in the fixed order claude, openai, gemini,
\* azure.
FirstInFixedOrder ==
    fallback_order[Min({ i \in DOMAIN fallback_order : fallback_order[i] \in Avail })]

PriorityChoice ==
    IF preferred_provider \notin { None, "auto" } /\ preferred_provider \in Avail
    THEN preferred_provider
    ELSE IF task_type \in DOMAIN ROUTING_STRATEGY
            /\ ROUTING_STRATEGY[task_type] \in Avail
    THEN ROUTING_STRATEGY[task_type]
    ELSE IF default_provider \in Avail
    THEN default_provider
    ELSE FirstInFixedOrder

\* C8: selection follows a strict priority: the caller's preference if given
\* (other than AUTO) and available; otherwise the provider the routing
\* strategy maps the task type to, if available; otherwise the default
\* provider, if available; otherwise the first available provider in the
\* fixed order.
C8_SelectionPriority ==
    (InCall /\ Avail # {}) => selected = PriorityChoice

\* The last rule decides: a preference is given and unavailable, the routed
\* provider and the default are unavailable, and a provider is available.
C8_Witness ==
    /\ rpc = "primary"
    /\ preferred_provider \in Providers \ Avail
    /\ task_type \in DOMAIN ROUTING_STRATEGY
    /\ ROUTING_STRATEGY[task_type] \notin Avail
    /\ default_provider \notin Avail
    /\ selected = _available_providers[1]

\* C9: complete() raises the configuration error, before any provider call,
\* exactly when no provider is available; otherwise the provider it selects
\* is an available one.
C9_ConfigurationError ==
    InCall =>
        /\ (rpc = "raised" /\ outcome = ValueError)
              <=> _available_providers = << >>
        /\ _available_providers = << >> => calls = << >>
        /\ _available_providers # << >> => selected \in Avail

C9_Witness ==
    /\ rpc = "raised"
    /\ outcome = ValueError
    /\ preferred_provider \in Providers
    /\ calls = << >>

\* C10: the selected provider is attempted at most 3 times per complete():
\* its attempts stop at the first one that returns, and after the third
\* failure none follows.
C10_AtMostThreeAttempts ==
    InCall =>
        /\ Cardinality(CallsOf(selected)) <= 3
        /\ \A i, j \in CallsOf(selected) : i < j => calls[i].outcome = "raised"

\* Three failed attempts of the selected provider, then a fallback provider.
C10_Witness ==
    /\ Len(calls) > 3
    /\ \A i \in 1..3 : calls[i].provider = selected /\ calls[i].outcome = "raised"
    /\ calls[4].provider # selected

\* The candidates of the fallback are contacted one after another in the
\* fixed order, none of the available ones is skipped, none that is
\* unavailable is contacted, the selected provider is not contacted again, and
\* nothing is contacted after a success.
FallbackInOrder ==
    /\ \A i \in DOMAIN calls : calls[i].provider \in Avail
    /\ \A i, j \in DOMAIN calls :
          i < j =>
              /\ calls[j].provider = selected => calls[i].provider = selected
              /\ calls[i].provider # calls[j].provider =>
                    \/ calls[i].provider = selected
                    \/ PositionOf(calls[i].provider) < PositionOf(calls[j].provider)
              /\ calls[i].outcome # "ok"
    /\ \A j \in DOMAIN calls :
          calls[j].provider # selected =>
              \A p \in Avail \ {selected} :
                  PositionOf(p) < PositionOf(calls[j].provider) =>
                      \E i \in 1..(j - 1) : calls[i].provider = p

\* C11: a complete() invocation is sequential: fallback starts only after
\* the retries of the selected provider are exhausted, the fallback
\* candidates are contacted one after another in the order claude, openai,
\* gemini, azure, skipping the failed provider and every unavailable one, and
\* the result of the first candidate that succeeds is returned without
\* contacting a later one.
C11_SequentialFallback ==
    InCall =>
        /\ \A j \in DOMAIN calls :
              calls[j].provider # selected =>
                  /\ j > MaxAttempts
                  /\ \A i \in 1..MaxAttempts :
                        calls[i].provider = selected /\ calls[i].outcome = "raised"
        /\ FallbackInOrder

\* The fallback flag of a result as a consumer reads it,
\* result.get("fallback", False): the primary path sets no "fallback" key.
UsedFallback(r) == "fallback" \in DOMAIN r /\ r.fallback

\* C12: with two available providers A and B and A selected, if every call to
\* A fails and the calls to B succeed, complete() returns a result whose
\* provider is B and whose fallback flag is true; in general the flag of a
\* returned result is true exactly when its provider is not the selected one.
C12_FallbackFlag ==
    /\ rpc = "returned" =>
          (UsedFallback(outcome) <=> outcome.provider # selected)
    /\ ( /\ rpc \in { "returned", "raised" }
         /\ Cardinality(Avail) = 2
         /\ calls # << >>
         /\ \A i \in DOMAIN calls :
               calls[i].outcome = "ok" <=> calls[i].provider # selected )
       => /\ rpc = "returned"
          /\ outcome.provider \in Avail \ {selected}
          /\ UsedFallback(outcome)

\* A always fails, B succeeds, and the result of B is returned.
C12_Witness ==
    /\ rpc = "returned"
    /\ Cardinality(Avail) = 2
    /\ Len(calls) = MaxAttempts + 1
    /\ \A i \in 1..MaxAttempts : calls[i].provider = selected
    /\ outcome.provider # selected
    /\ UsedFallback(outcome)

\* Provider p has failed for this invocation: the retry wrapper gave up after
\* MaxAttempts attempts that raised, or a response of p had a bad envelope.
HasFailed(p) ==
    \/ \E i \in CallsOf(p) : calls[i].outcome = "bad_shape"
    \/ Cardinality({ i \in CallsOf(p) : calls[i].outcome = "raised" }) = MaxAttempts

\* C13: if every available provider fails (the selected one on all its
\* attempts and every fallback candidate), complete() raises the
\* all-providers-exhausted error and returns no result; with exactly one
\* available provider that exhausts its retries it raises that error, as
\* there is no fallback candidate.
C13_AllProvidersExhausted ==
    (InCall /\ Avail # {}) =>
        /\ (\A p \in Avail : HasFailed(p))
              <=> (rpc = "raised" /\ outcome = RuntimeError)
        /\ ( /\ Cardinality(Avail) = 1
             /\ Len(calls) = MaxAttempts
             /\ \A i \in DOMAIN calls : calls[i].outcome = "raised" )
           => (rpc = "raised" /\ outcome = RuntimeError)
        /\ rpc = "raised" => \A i \in DOMAIN calls : calls[i].outcome # "ok"

\* One available provider, three attempts that raised, the error is raised.
C13_Witness ==
    /\ Cardinality(Avail) = 1
    /\ Len(calls) = MaxAttempts
    /\ \A i \in DOMAIN calls : calls[i].outcome = "raised"
    /\ rpc = "raised"
    /\ outcome = RuntimeError

\* C14: complete() ends with a result, with the configuration error or with
\* the all-providers-exhausted error; a transport error or a response-shape
\* error of a provider is never what the caller of complete() gets.
C14_ErrorsCrossingBoundary ==
    /\ rpc = "raised" => outcome \in { ValueError, RuntimeError }
    /\ rpc = "returned" =>
          /\ DOMAIN outcome \subseteq { "text", "provider", "model", "fallback", "mock" }
          /\ "text" \in DOMAIN outcome
    /\ \A i \in DOMAIN calls :
          calls[i].outcome \in { "raised", "bad_shape" } =>
              \/ rpc \in { "primary", "fallback", "returned" }
              \/ rpc = "raised" /\ outcome = RuntimeError

\* Transport and shape errors happened; the caller gets the terminal error.
C14_Witness ==
    /\ rpc = "raised"
    /\ outcome = RuntimeError
    /\ \E i, j \in DOMAIN calls :
          calls[i].outcome = "raised" /\ calls[j].outcome = "bad_shape"

\* C15: the live router never fabricates output: the text of every result
\* LLMRouter.complete() returns is the text extracted from a successful
\* response of the provider the result names.  Canned text comes only from
\* the offline router, which get_router() installs exactly when no provider
\* is available at construction, and which makes no provider call.
C15_NeverFabricates ==
    /\ (rpc = "returned" /\ _router # "MockLLMRouter") =>
          /\ calls # << >>
          /\ calls[Len(calls)].outcome = "ok"
          /\ calls[Len(calls)].provider = outcome.provider
          /\ outcome.text = ResponseText(outcome.provider)
          /\ outcome.provider \in Avail
          /\ "mock" \notin DOMAIN outcome
    /\ (rpc = "returned" /\ _router = "MockLLMRouter") =>
          /\ outcome.text = MOCK_RESPONSES(task_type)
          /\ outcome.provider = "mock"
    /\ _router = "MockLLMRouter" => (_available_providers = << >> /\ calls = << >>)
    /\ _router = "LLMRouter" => _available_providers # << >>

\* The router get_router() installed is the live one and has returned the
\* text of a fallback provider's response.
C15_Witness ==
    /\ _router = "LLMRouter"
    /\ rpc = "returned"
    /\ outcome.text = ResponseText(calls[Len(calls)].provider)
    /\ outcome.provider # selected

\* C16: availability and routing data are read-only after construction: no
\* complete(), whether it succeeds or fails, and no get_available_providers()
\* call, even when the caller changes the list it got, changes the router's
\* available-provider list or default provider (the routing strategy is a
\* constant); so the provider an invocation selects is the priority choice
\* from that data however the invocation interleaves with others.
C16_ConfigReadOnly ==
    [][ /\ Config' = Config
        /\ (rpc = "idle" /\ rpc' = "primary") => selected' = PriorityChoice'
      ]_vars

\* A caller has emptied the list it got, a complete() has failed on every
\* provider, and the router's own list is as it was built.
C16_Witness ==
    /\ available # << >>
    /\ available[1].items = << >>
    /\ _available_providers # << >>
    /\ rpc = "raised"
    /\ outcome = RuntimeError

\* C17: when the caller's deadline cancels a complete() invocation while a
\* provider attempt is in flight, that attempt is aborted, no retry of that
\* provider and no fallback call follows, and no result is returned.
C17_Cancellation ==
    /\ \A i \in DOMAIN calls :
          calls[i].outcome = "cancelled" => (i = Len(calls) /\ rpc = "cancelled")
    /\ rpc = "cancelled" =>
          /\ outcome = CancelledError
          /\ calls # << >>
          /\ calls[Len(calls)].outcome = "cancelled"

\* Cancelled during the second attempt of the selected provider, with a retry
\* and a fallback candidate still unused.
C17_Witness ==
    /\ rpc = "cancelled"
    /\ Len(calls) = 2
    /\ calls[1].outcome = "raised"
    /\ calls[2].provider = selected
    /\ Cardinality(Avail) >= 2

(***************************************************************************)
(* Further properties of redact()                                          *)
(***************************************************************************)
\* The number of mappings of the result whose entity type is ty.
MappingsOfType(ty) ==
    Cardinality({ i \in DOMAIN Mappings : Mappings[i].entity_type = ty })

\* C18: in every RedactionResult entities_found[type] is the number of
\* mappings of that type, a type without an accepted match has no entry, and
\* candidates rejected by the overlap filter are not counted.
C18_EntityCounts ==
    pc # "start" =>
        /\ \A ty \in DOMAIN result.entities_found :
              /\ MappingsOfType(ty) > 0
              /\ result.entities_found[ty] = MappingsOfType(ty)
        /\ \A i \in DOMAIN Mappings :
              Mappings[i].entity_type \in DOMAIN result.entities_found

\* Two accepted matches of one type, and a candidate that was rejected.
C18_Witness ==
    /\ pc = "redacted"
    /\ \E ty \in DOMAIN result.entities_found : result.entities_found[ty] = 2
    /\ Len(Candidates) > Len(Mappings)

\* C19: the mappings of every RedactionResult are in ascending order of the
\* original text: of two consecutive mappings the first starts before the
\* second and ends at or before the start of the second.
C19_MappingsAscending ==
    pc # "start" =>
        \A i \in 1..(Len(Mappings) - 1) :
            /\ Mappings[i].start < Mappings[i + 1].start
            /\ Mappings[i].end <= Mappings[i + 1].start

\* Three mappings, not all of one type.
C19_Witness ==
    /\ pc = "redacted"
    /\ Len(Mappings) = 3
    /\ Mappings[1].entity_type # Mappings[3].entity_type

\* The claim-number and policy-number matches of the text.
NumberMatches ==
    Range(Finditer("CLAIM_NUMBER", text, 0)) \cup Range(Finditer("POLICY_NUMBER", text, 0))

\* With the engine enabled the candidates of type CLAIM_NUMBER and
\* POLICY_NUMBER are collected whatever the configured entity set is, and
\* candidates of another type only when the type is in the set.
CollectedWhateverConfig ==
    (enabled /\ text # << >>) =>
        /\ NumberMatches \subseteq Range(Candidates)
        /\ \A c \in Range(Candidates) :
              c[3] \in { "CLAIM_NUMBER", "POLICY_NUMBER" } \/ c[3] \in entities_to_redact

\* C20: with the engine enabled, claim-number and policy-number detection is
\* active for every entity configuration: their candidates are collected and
\* redacted (the span is replaced) even when the configured set excludes them
\* or is empty, while candidates of other types are collected only when the
\* type is in the configured set.
C20_NumbersAlwaysRedacted ==
    (enabled /\ pc # "start") =>
        /\ CollectedWhateverConfig
        /\ \A c \in NumberMatches :
              \E i \in DOMAIN Mappings :
                  Mappings[i].start <= c[1] /\ c[2] <= Mappings[i].end

\* C21: redact() is deterministic and history-free: whatever calls the engine
\* served before, a call returns what a fresh engine with the same enabled
\* entity set returns for the text, and two calls in a row on the same text
\* with the same switch return equal results.
C21_HistoryFree ==
    pc = "redacted" =>
        /\ result = Alone(text)
        /\ \A i \in DOMAIN previous :
               (previous[i].text = text /\ previous[i].enabled = enabled)
                   => previous[i].result = result

\* A call whose placeholders start at 1 again, on an engine whose previous call
\* on another text had counted to 2.
C21_Witness ==
    /\ pc = "redacted"
    /\ enabled
    /\ previous # << >>
    /\ previous[1].text # text
    /\ \E i \in DOMAIN previous[1].result.mappings :
           previous[1].result.mappings[i].placeholder = FormatPlaceholder("CLAIM_NUMBER", 2)
    /\ \E i \in DOMAIN result.mappings :
           result.mappings[i].placeholder = FormatPlaceholder("CLAIM_NUMBER", 1)
    /\ \A i \in DOMAIN result.mappings :
           result.mappings[i].placeholder # FormatPlaceholder("CLAIM_NUMBER", 2)

\* C22: for a text in which no detector finds a candidate, the empty text
\* included, redact returns the text itself, no mapping and no count.
C22_NothingToRedact ==
    (pc # "start" /\ Candidates = << >>)
        => result = RedactionResult(text, << >>, EmptyDict)

\* An enabled engine has redacted a text of several words and found nothing.
C22_Witness ==
    /\ pc = "redacted"
    /\ enabled
    /\ entities_to_redact = PII_ENTITIES_TO_REDACT
    /\ Len(text) > 1
    /\ Candidates = << >>
    /\ result.redacted_text = text

\* C23: a disabled engine returns the text as it is, with no mapping and no
\* count, whatever the text holds, and leaves _counters as it found it.
C23_DisabledIsIdentity ==
    [][(pc = "start" /\ pc' = "redacted" /\ ~enabled)
          => /\ result' = RedactionResult(text, << >>, EmptyDict)
             /\ _counters' = _counters]_vars

\* A disabled call on a text with a claim number, on an engine whose counters
\* an earlier call had filled.
C23_Witness ==
    /\ pc = "redacted"
    /\ ~enabled
    /\ _counters # EmptyDict
    /\ Finditer("CLAIM_NUMBER", text, 0) # << >>
    /\ result = RedactionResult(text, << >>, EmptyDict)
(***************************************************************************)
(* Overlap resolution                                                      *)
(***************************************************************************)
\* Candidate k is the match of a mapping of the result.
Accepted(k) ==
    \E i \in DOMAIN Mappings :
        Candidates[k] = <<Mappings[i].start, Mappings[i].end,
                          Mappings[i].entity_type, Mappings[i].original>>

Intersect(c1, c2) == c1[1] < c2[2] /\ c2[1] < c1[2]

\* Candidate j comes before candidate k in the scan: it starts later, or at
\* the same offset and its detector ran earlier.
Precedes(j, k) ==
    \/ Candidates[j][1] > Candidates[k][1]
    \/ Candidates[j][1] = Candidates[k][1] /\ j < k

Length(c) == SumWidth(text, c[1], c[2])

\* C25: overlap removal keeps the longer match: of two candidates that
\* overlap, the one with more characters is accepted.
C25_LongerMatchKept ==
    (pc # "start" /\ enabled) =>
        \A j, k \in DOMAIN Candidates :
            (Intersect(Candidates[j], Candidates[k])
             /\ Length(Candidates[j]) > Length(Candidates[k]))
                => Accepted(j)

\* C26: no detected span survives intact: every candidate of an active
\* detector is accepted or intersects an accepted span.
C26_NoCandidateSurvives ==
    (pc # "start" /\ enabled) =>
        \A k \in DOMAIN Candidates :
            \E i \in DOMAIN Mappings :
                Mappings[i].start < Candidates[k][2]
                /\ Candidates[k][1] < Mappings[i].end

\* A result with a candidate rejected in favour of a later one, and an
\* accepted candidate that starts before the rejected one and intersects it.
C26_Witness ==
    /\ pc = "redacted"
    /\ enabled
    /\ \E i, j, k \in DOMAIN Candidates :
           /\ Accepted(i) /\ Accepted(j) /\ ~Accepted(k)
           /\ Intersect(Candidates[i], Candidates[k])
           /\ Intersect(Candidates[j], Candidates[k])
           /\ Candidates[i][1] < Candidates[k][1]
           /\ Candidates[k][1] < Candidates[j][1]
(***************************************************************************)
(* Properties of restore() and of the replacement loop                     *)
(***************************************************************************)
\* The mapping whose placeholder stands at the front of s, if there is one.
AtFront(s, ms) ==
    { m \in Range(ms) :
        Len(m.placeholder) <= Len(s) /\ SubSeq(s, 1, Len(m.placeholder)) = m.placeholder }

\* s with every placeholder of ms replaced by its original, in one pass from
\* left to right.
RECURSIVE Unredacted(_, _)
Unredacted(s, ms) ==
    IF s = << >> THEN << >>
    ELSE IF AtFront(s, ms) = {} THEN <<s[1]>> \o Unredacted(Tail(s), ms)
    ELSE LET m == CHOOSE x \in AtFront(s, ms) : TRUE
         IN  m.original \o Unredacted(SubSeq(s, Len(m.placeholder) + 1, Len(s)), ms)

\* C27: restore() replays the mappings in descending placeholder order and
\* replaces every occurrence of each placeholder by its own original: number
\* 1 is never substituted inside number 10, and the order of the mappings
\* list does not matter.
C27_RestoreByPlaceholder ==
    LET replay == SortByPlaceholder(result.mappings, 1, << >>)
    IN  /\ \A i, j \in DOMAIN replay :
               i < j => StrLess(replay[j].placeholder, replay[i].placeholder)
        /\ pc = "restored" =>
               /\ restored = Unredacted(result.redacted_text, result.mappings)
               /\ \A ms \in MappingLists :
                      Restore(result.redacted_text, ms) = restored

\* restore() has replaced two occurrences of placeholder 1 and one of
\* placeholder 10, with the mapping of 1 listed before the mapping of 10.
C27_Witness ==
    /\ pc = "restored"
    /\ result.redacted_text =
           Join(<<FormatPlaceholder("CLAIM_NUMBER", 1),
                  FormatPlaceholder("CLAIM_NUMBER", 10),
                  FormatPlaceholder("CLAIM_NUMBER", 1)>>)
    /\ result.mappings[1].placeholder = FormatPlaceholder("CLAIM_NUMBER", 1)
    /\ result.mappings[2].placeholder = FormatPlaceholder("CLAIM_NUMBER", 10)
    /\ restored = Join(<<OriginalOf(1), OriginalOf(10), OriginalOf(1)>>)
\* text from offset p on, with the span of every mapping of ms replaced by its
\* placeholder and every other symbol kept, in one pass from left to right.
RECURSIVE Substituted(_, _, _)
Substituted(t, p, ms) ==
    IF p >= Len(t) THEN << >>
    ELSE LET here == { i \in DOMAIN ms : ms[i].start = p }
         IN  IF here = {} THEN <<t[p + 1]>> \o Substituted(t, p + 1, ms)
             ELSE LET m == ms[CHOOSE i \in here : TRUE]
                  IN  m.placeholder \o Substituted(t, m.end, ms)

\* C28: replacing the accepted spans one at a time in descending start order
\* is a simultaneous substitution on the original text: every mapping's
\* offsets point into the original text at its original, and redacted_text is
\* the original text with exactly the accepted spans replaced.
C28_SimultaneousSubstitution ==
    pc # "start" =>
        /\ \A i \in DOMAIN Mappings :
               /\ 0 <= Mappings[i].start
               /\ Mappings[i].start < Mappings[i].end
               /\ Mappings[i].end <= Len(text)
               /\ Slice(text, Mappings[i].start, Mappings[i].end) = Mappings[i].original
        /\ result.redacted_text = Substituted(text, 0, Mappings)

\* A result with three replaced spans whose placeholders are longer than the
\* originals, so that offsets into the redacted text have drifted.
C28_Witness ==
    /\ pc = "redacted"
    /\ Len(Mappings) = 3
    /\ Len(result.redacted_text) > Len(text)
    /\ Mappings[1].start = 0
    /\ Mappings[3].end = Len(text)
(***************************************************************************)
(* Further properties of LLMRouter.complete()                              *)
(***************************************************************************)
\* C29: in both phases of complete() a provider call goes only to a provider
\* of the available set computed at construction; the primary phase calls the
\* selected provider, and the fallback phase never calls it again.
C29_OnlyAvailableProvidersCalled ==
    InCall =>
        \A i \in DOMAIN calls :
            /\ calls[i].provider \in Avail
            /\ calls[i].phase = "primary" => calls[i].provider = selected
            /\ calls[i].phase = "fallback" => calls[i].provider # selected

\* The fallback loop has passed over an unavailable provider and over the
\* provider that failed, and has called a provider before and after it.
C29_Witness ==
    /\ rpc = "fallback"
    /\ \E p \in Providers \ Avail : PositionOf(p) < PositionOf(provider)
    /\ \E i, j \in DOMAIN calls :
           /\ calls[i].phase = "fallback"
           /\ calls[j].phase = "fallback"
           /\ PositionOf(calls[i].provider) < PositionOf(selected)
           /\ PositionOf(selected) < PositionOf(calls[j].provider)

\* The calls of one provider are consecutive: once another provider is called
\* the router does not come back to it.
NeverLoopsBack ==
    \A i, j, k \in DOMAIN calls :
        (i < j /\ j < k /\ calls[i].provider = calls[k].provider)
            => calls[j].provider = calls[i].provider

\* C30: every complete() terminates when every provider attempt ends: it
\* makes at most MaxAttempts attempts per available provider, never goes back
\* to a provider it gave up on, and ends with a result, the configuration
\* error or the all-providers-failed error.
C30_Terminates ==
    /\ [](InCall =>
            /\ Len(calls) <= MaxAttempts * Cardinality(Avail)
            /\ NeverLoopsBack
            /\ rpc = "raised" => outcome \in {ValueError, RuntimeError}
            /\ rpc = "returned" =>
                   outcome = CompletionResult(calls[Len(calls)].provider,
                                              calls[Len(calls)].phase))
    /\ (rpc \in {"primary", "fallback"}) ~> (rpc \in {"returned", "raised"})

\* The longest invocation: every attempt of each of three available providers
\* has failed.
C30_Witness ==
    /\ rpc = "raised"
    /\ outcome = RuntimeError
    /\ Cardinality(Avail) >= 3
    /\ Len(calls) = MaxAttempts * Cardinality(Avail)
=============================================================================
